---- MODULE Spec2Model ----
(***************************************************************************)
(* Multimodal multi-vector RAG: dual-store index (embedding store +        *)
(* key-value docstore + pickled snapshot), retriever, summariser and the   *)
(* indexed-PDF registry.                                                   *)
(*                                                                         *)
(* Strings held in the state are names of fixed strings; Content(name)     *)
(* gives the characters.  Characters are abstracted to the classes the     *)
(* code distinguishes: "A" (alphanumeric, '+', '/'), "n" (newline),        *)
(* "r" (carriage return), "=" and "x" (anything else).                     *)
(***************************************************************************)
EXTENDS Integers, Sequences, FiniteSets, TLC

VARIABLES
    \* ---- dual-store index (vectorstore.py, utils.py, main.py) ----
    vstore,      \* Chroma collection: set of [content, doc_id] records (durable)
    docstore,    \* InMemoryStore.store: insertion-ordered dict, a sequence of <<key, value>>
    snapshot,    \* file at DOCSTORE_PATH: [exists, whole, pairs]
    nextId,      \* number of uuid4 values drawn so far
    pc,          \* position of the process inside index_all / add_*_to_store
    stage,       \* content kind index_all is at: "none", "text", "table", "image"
    ids,         \* doc_ids of the add_*_to_store call in progress
    curS,        \* summaries argument of the call in progress
    curO,        \* originals argument of the call in progress
    lastAdd,     \* how the latest add_*_to_store call ended
    outcome,     \* how the latest index_all call ended, and in which kind it failed
    iaBase,      \* history: the value of nextId when the latest index_all was called
    iaPaired,    \* history: every add call of the latest index_all so far had
                 \*          len(summaries) = len(originals)
    lastQuery,   \* outcome of the latest _answer_and_sources call
    bootErr,     \* load_docstore raised at startup
    \* ---- summariser (summarizer.py) ----
    sPc,         \* position inside summarise_texts / summarise_images
    sTexts,      \* input sequence (names of content units)
    sConc,       \* the concurrency argument
    sI,          \* loop variable i (texts) or idx - 1 (images)
    sInflight,   \* calls of the current batch that were started and have not returned
    sFailed,     \* calls of the current batch that raised
    sOut,        \* the summaries list
    sFn,         \* the function called: "none", "texts", "images"
    sRet,        \* how the call ended: "none", "returned", "raised"
    sLog,        \* history: one entry per loop iteration
    \* ---- registry (utils.py) ----
    regFile,     \* file at INDEXED_PDFS_PATH: [exists, whole, names]
    rPc,         \* position inside save_indexed_pdf
    rName,       \* filename argument
    rExisting,   \* sorted(existing), the list to be written
    rRet,        \* how the latest save_indexed_pdf call ended
    rBefore,     \* history: the list in the file when the latest call started
    rAdded,      \* history: names whose save_indexed_pdf returned
    \* ---- base64 heuristic (utils.py) ----
    bPc,         \* "idle" before is_base64_image is called, "done" after
    bRuns,       \* the text argument, as runs <<character class, length>>
    bRes,        \* the value returned
    \* ---- upload action (main.py) ----
    uPc,         \* position inside _upload_pdf
    uName,       \* filename = os.path.basename(pdf_path)
    uRet         \* how the latest _upload_pdf ended

storeVars == <<vstore, docstore, snapshot, nextId, pc, stage, ids, curS, curO,
               lastAdd, outcome, iaBase, iaPaired, lastQuery, bootErr>>
summVars  == <<sPc, sFn, sTexts, sConc, sI, sInflight, sFailed, sOut, sRet, sLog>>
regVars   == <<regFile, rPc, rName, rExisting, rRet, rBefore, rAdded>>
b64Vars   == <<bPc, bRuns, bRes>>
upVars    == <<uPc, uName, uRet>>
vars      == <<storeVars, summVars, regVars, b64Vars, upVars>>

----------------------------------------------------------------------------
\* Bounds of the model

MaxItems == 2      \* longest summaries / originals argument of one add call
MaxIds   == 3      \* doc_ids drawn in one behaviour
MaxUnits == 3      \* longest input of the summariser
MaxConc  == 3      \* largest concurrency argument tried
MaxRuns  == 3      \* most runs of one character class in a text given to is_base64_image

\* Program constants
SearchK     == 6      \* default search_kwargs {"k": 6}
FallbackLen == 500    \* t[:500]
MinB64Len   == 200    \* len(text) < 200
B64Prefix   == 500    \* text[:500]

NoneVal == "<None>"   \* Python None as returned by mget for a missing key

Min(a, b) == IF a <= b THEN a ELSE b

Range(s) == {s[i] : i \in DOMAIN s}

Take(s, n) == SubSeq(s, 1, Min(n, Len(s)))

Rep(c, n) == [i \in 1..n |-> c]

----------------------------------------------------------------------------
\* The fixed strings.  Summaries and originals of the three content kinds.

KindSummaries(k) ==
    CASE k = "text"  -> <<"ts1", "ts2", "ts3", "ts4">>
      [] k = "table" -> <<"bs1", "bs2", "bs3", "bs4">>
      [] k = "image" -> <<"is1", "is2", "is3", "is4">>

KindOriginals(k) ==
    CASE k = "text"  -> <<"t1", "t2", "t3", "t4">>
      [] k = "table" -> <<"b1", "b2", "b3", "b4">>
      [] k = "image" -> <<"i1", "i2", "i3", "i4">>

Content(name) ==
    CASE name \in Range(KindOriginals("image")) -> Rep("A", 300) \o <<"=", "=">>
      [] name \in Range(KindOriginals("table")) -> <<"x", "A", "A", "x">>
      [] name = "u3"   -> <<"A", "x", "A">>
      [] name = "u500" -> Rep("A", 499) \o <<"x">>
      [] name = "u501" -> Rep("A", 500) \o <<"x">>
      [] OTHER -> <<"A", "A", "x", "A">>

----------------------------------------------------------------------------
\* utils.py: base64 heuristic, used by rag_chain.parse_docs

B64Class == {"A", "n", "r"}       \* [A-Za-z0-9+/\n\r]

\* number of consecutive characters of p, from position i on, that are in set S
RunFrom(p, i, S) ==
    LET stop == {k \in i..Len(p) : p[k] \notin S}
    IN  IF stop = {} THEN Len(p) + 1 - i
        ELSE (CHOOSE m \in stop : \A k \in stop : m <= k) - i

\* re.compile(r"^[A-Za-z0-9+/\n\r]+=*$").match(p): '$' matches at the end and
\* before a final newline
b64_pattern_match(p) ==
    LET run == RunFrom(p, 1, B64Class)
        e   == run + RunFrom(p, run + 1, {"="})
    IN  /\ run >= 1
        /\ \/ e = Len(p)
           \/ e = Len(p) - 1 /\ p[Len(p)] = "n"

\* the heuristic without its length test
is_base64_image_any_length(text) ==
    b64_pattern_match(Take(text, B64Prefix))

is_base64_image(text) ==
    IF Len(text) < MinB64Len THEN FALSE
    ELSE b64_pattern_match(Take(text, B64Prefix))

\* Texts given to is_base64_image: up to MaxRuns runs, each of one character
\* class and of a length taken from RunLens
CharClasses == {"A", "=", "n", "x"}

RunLens == {1, 99, 100, 200}

RunSeqs == UNION {[1..n -> CharClasses \X RunLens] : n \in 0..MaxRuns}

RECURSIVE Expand(_)
Expand(runs) ==
    IF runs = <<>> THEN <<>>
    ELSE Rep(Head(runs)[1], Head(runs)[2]) \o Expand(Tail(runs))

\* is_base64_image(text) is called and returns
b64_call(runs) ==
    /\ bPc = "idle"
    /\ bPc' = "done"
    /\ bRuns' = runs
    /\ bRes' = is_base64_image(Expand(runs))

B64Init ==
    /\ bPc = "idle"
    /\ bRuns = <<>>
    /\ bRes = FALSE

classify == bPc = "idle" /\ \E runs \in RunSeqs : b64_call(runs)

----------------------------------------------------------------------------
\* InMemoryStore: a dict, kept as the sequence of its items in insertion order

Keys(store) == {store[i][1] : i \in DOMAIN store}

\* store.mget([key])[0]
Get(store, key) ==
    IF key \in Keys(store)
    THEN (store[CHOOSE i \in DOMAIN store : store[i][1] = key])[2]
    ELSE NoneVal

\* self.store[key] = value
SetItem(store, kv) ==
    IF kv[1] \in Keys(store)
    THEN [i \in DOMAIN store |-> IF store[i][1] = kv[1] THEN kv ELSE store[i]]
    ELSE Append(store, kv)

RECURSIVE mset(_, _)
mset(store, pairs) ==
    IF pairs = <<>> THEN store
    ELSE mset(SetItem(store, Head(pairs)), Tail(pairs))

mget(store, keys) == [i \in DOMAIN keys |-> Get(store, keys[i])]

\* Same keys, same values
SameStore(a, b) ==
    /\ Keys(a) = Keys(b)
    /\ \A k \in Keys(a) : Get(a, k) = Get(b, k)

----------------------------------------------------------------------------
\* utils.py: docstore persistence

NoFile == [exists |-> FALSE, whole |-> FALSE, pairs |-> <<>>]

\* save_docstore, lines 46-50: the dict `internal` that is pickled
InternalDictDropsFirst(store) ==
    IF store = <<>> THEN <<>>
    ELSE SelectSeq(Tail(store), LAMBDA kv : kv[2] # NoneVal)

InternalDict(store) ==
    SelectSeq(store, LAMBDA kv : Get(store, kv[1]) # NoneVal)

\* load_docstore: a fresh store, filled from the pickled dict when the file exists
load_docstore(file) ==
    IF file.exists /\ file.pairs # <<>> THEN mset(<<>>, file.pairs) ELSE <<>>

----------------------------------------------------------------------------
\* vectorstore.py: add_texts_to_store / add_images_to_store

\* doc_ids = [str(uuid.uuid4()) for _ in summaries]
FreshIds(n, k) == [i \in 1..k |-> n + i]

\* summary_docs = [Document(page_content=s, metadata={_ID_KEY: doc_ids[i]}) ...]
SummaryDocs(summaries, doc_ids) ==
    {[content |-> summaries[i], doc_id |-> doc_ids[i]] : i \in DOMAIN summaries}

\* list(zip(doc_ids, originals)), with the originals taken from the wrong end
ZipReversed(doc_ids, originals) ==
    [i \in 1..Min(Len(doc_ids), Len(originals)) |->
        <<doc_ids[i], originals[Len(originals) + 1 - i]>>]

\* list(zip(doc_ids, originals)): stops at the shorter argument
Zip(doc_ids, originals) ==
    [i \in 1..Min(Len(doc_ids), Len(originals)) |-> <<doc_ids[i], originals[i]>>]

----------------------------------------------------------------------------
\* MultiVectorRetriever._get_relevant_documents, as built by get_retriever

RECURSIVE Dedup(_)
\* ids of the matches in order, each once
Dedup(s) ==
    IF s = <<>> THEN <<>>
    ELSE LET r == Dedup(SubSeq(s, 1, Len(s) - 1))
         IN  IF s[Len(s)] \in Range(r) THEN r ELSE Append(r, s[Len(s)])

RECURSIVE ByDocId(_)
\* the records in doc_id order
ByDocId(records) ==
    IF records = {} THEN <<>>
    ELSE LET r == CHOOSE x \in records : \A y \in records : x.doc_id <= y.doc_id
         IN  <<r>> \o ByDocId(records \ {r})

\* similarity_search(query, k): the min(k, n) nearest records, nearest first.
\* The embedding model decides which record is nearest to a question, so any
\* record may come first; the others follow in doc_id order.
Rankings(records, k) ==
    IF records = {} THEN {<<>>}
    ELSE {Take(<<top>> \o ByDocId(records \ {top}), k) : top \in records}

MatchIds(matches) == Dedup([i \in DOMAIN matches |-> matches[i].doc_id])

\* docs = self.docstore.mget(ids); return [d for d in docs if d is not None]
Retrieve(matches, store) ==
    SelectSeq(mget(store, MatchIds(matches)), LAMBDA d : d # NoneVal)

\* the stored strings is_base64_image classifies as images
ImageLike ==
    {d \in UNION {Range(KindOriginals(k)) : k \in {"text", "table", "image"}} :
        is_base64_image(Content(d))}

\* rag_chain.parse_docs
parse_docs(docs) ==
    [texts  |-> SelectSeq(docs, LAMBDA d : d \notin ImageLike),
     images |-> SelectSeq(docs, LAMBDA d : d \in ImageLike)]

NoQuery == [outcome |-> "none", matches |-> <<>>, docs |-> <<>>,
            sources |-> <<>>, image_count |-> 0]

----------------------------------------------------------------------------
\* The dual-store index as a process: index_all and the steps of the
\* add_*_to_store call it is in.  A step that raises ends index_all (nothing
\* in add_*_to_store, index_all or _upload_pdf catches).

Kinds == {"text", "table", "image"}

NextStage(k) == CASE k = "text" -> "table" [] k = "table" -> "image" [] k = "image" -> "none"

ArgSeqs(pool) == {Take(pool, n) : n \in 0..MaxItems}

\* the add_*_to_store call returns normally: index_all goes on with the next kind
Return(how) ==
    /\ lastAdd' = how
    /\ stage' = NextStage(stage)
    /\ pc' = IF stage = "image" THEN "idle" ELSE "call"
    /\ outcome' = IF stage = "image" THEN [status |-> "ok", at |-> "none", step |-> "none"]
                  ELSE outcome

\* a step of the add_*_to_store call raises
Raise(step) ==
    /\ lastAdd' = "raised"
    /\ outcome' = [status |-> "failed", at |-> stage, step |-> step]
    /\ stage' = "none"
    /\ pc' = "idle"

\* index_all is called (main._upload_pdf, step 3)
index_all ==
    /\ pc = "idle"
    /\ nextId < MaxIds
    /\ pc' = "call"
    /\ stage' = "text"
    /\ outcome' = [status |-> "running", at |-> "none", step |-> "none"]
    /\ iaBase' = nextId
    /\ iaPaired' = TRUE
    /\ lastQuery' = NoQuery
    /\ UNCHANGED <<vstore, docstore, snapshot, nextId, ids, curS, curO, lastAdd, bootErr>>

\* add_texts_to_store / add_images_to_store, lines 85-95 / 118-126:
\* the arguments of this kind, the empty-summaries return, the fresh doc_ids
add_enter(summaries, originals) ==
    /\ pc = "call"
    /\ nextId + Len(summaries) <= MaxIds
    /\ iaPaired' = (iaPaired /\ Len(summaries) = Len(originals))
    /\ IF summaries = <<>>
       THEN /\ Return(lastAdd)
            /\ UNCHANGED <<nextId, ids, curS, curO>>
       ELSE /\ ids' = FreshIds(nextId, Len(summaries))
            /\ nextId' = nextId + Len(summaries)
            /\ curS' = summaries
            /\ curO' = originals
            /\ pc' = "ids"
            /\ lastAdd' = "running"
            /\ UNCHANGED <<stage, outcome>>
    /\ UNCHANGED <<vstore, docstore, snapshot, iaBase, lastQuery, bootErr>>

\* the step at the place of vectorstore.add_documents when the embedding
\* records are written after the other writes: nothing is added yet
add_documents_deferred ==
    /\ pc = "ids"
    /\ pc' = "embedded"
    /\ UNCHANGED <<vstore, docstore, snapshot, nextId, stage, ids, curS, curO, lastAdd,
                   outcome, iaBase, iaPaired, lastQuery, bootErr>>

\* vectorstore.add_documents(summary_docs)
add_documents ==
    /\ pc = "ids"
    /\ vstore' = vstore \cup SummaryDocs(curS, ids)
    /\ pc' = "embedded"
    /\ UNCHANGED <<docstore, snapshot, nextId, stage, ids, curS, curO, lastAdd,
                   outcome, iaBase, iaPaired, lastQuery, bootErr>>

\* vectorstore.add_documents raises (the embedding call fails): nothing is added
add_documents_raises ==
    /\ pc = "ids"
    /\ Raise("add_documents")
    /\ UNCHANGED <<vstore, docstore, snapshot, nextId, ids, curS, curO, iaBase, iaPaired,
                   lastQuery, bootErr>>

\* docstore.mset(list(zip(doc_ids, originals)))
docstore_mset ==
    /\ pc = "embedded"
    /\ docstore' = mset(docstore, Zip(ids, curO))
    /\ pc' = "stored"
    /\ UNCHANGED <<vstore, snapshot, nextId, stage, ids, curS, curO, lastAdd,
                   outcome, iaBase, iaPaired, lastQuery, bootErr>>

\* save_docstore, lines 46-52: os.makedirs or open(path, "wb") raises; the file
\* is as it was
save_open_raises ==
    /\ pc = "stored"
    /\ Raise("open")
    /\ UNCHANGED <<vstore, docstore, snapshot, nextId, ids, curS, curO, iaBase, iaPaired,
                   lastQuery, bootErr>>

\* save_docstore, line 52: open(path, "wb") creates or truncates the file
save_open ==
    /\ pc = "stored"
    /\ snapshot' = [exists |-> TRUE, whole |-> FALSE, pairs |-> <<>>]
    /\ pc' = "opened"
    /\ UNCHANGED <<vstore, docstore, nextId, stage, ids, curS, curO, lastAdd,
                   outcome, iaBase, iaPaired, lastQuery, bootErr>>

\* save_docstore, line 53: pickle.dump(internal, f) and the close of the file;
\* add_*_to_store returns
save_dump ==
    /\ pc = "opened"
    /\ snapshot' = [exists |-> TRUE, whole |-> TRUE, pairs |-> InternalDict(docstore)]
    /\ Return("saved")
    /\ UNCHANGED <<vstore, docstore, nextId, ids, curS, curO, iaBase, iaPaired,
                   lastQuery, bootErr>>

\* pickle.dump raises part-way (disk full, I/O error): the file keeps what was
\* written of the pickle, which is not a whole pickle
save_dump_raises ==
    /\ pc = "opened"
    /\ \E n \in 0..Len(InternalDict(docstore)) :
          snapshot' = [exists |-> TRUE, whole |-> FALSE,
                       pairs |-> Take(InternalDict(docstore), n)]
    /\ Raise("dump")
    /\ UNCHANGED <<vstore, docstore, nextId, ids, curS, curO, iaBase, iaPaired,
                   lastQuery, bootErr>>

\* The process ends (menu option 4, an uncaught exception, a kill): the
\* in-memory docstore is gone, the Chroma directory and the files stay
Exit ==
    /\ pc # "down"
    /\ pc' = "down"
    /\ docstore' = <<>>
    /\ stage' = "none"
    /\ ids' = <<>>
    /\ curS' = <<>>
    /\ curO' = <<>>
    /\ lastAdd' = "none"
    /\ outcome' = IF outcome.status = "running"
                  THEN [status |-> "failed", at |-> stage, step |-> "exit"]
                  ELSE outcome
    /\ iaBase' = nextId
    /\ iaPaired' = TRUE
    /\ lastQuery' = NoQuery
    /\ UNCHANGED <<vstore, snapshot, nextId, bootErr>>

\* main._boot: get_vectorstore reopens the persisted collection, load_docstore
\* rebuilds the docstore from the snapshot
boot ==
    /\ pc = "down"
    /\ snapshot.exists => snapshot.whole
    /\ docstore' = load_docstore(snapshot)
    /\ pc' = "idle"
    /\ bootErr' = FALSE
    /\ outcome' = [status |-> "none", at |-> "none", step |-> "none"]
    /\ UNCHANGED <<vstore, snapshot, nextId, stage, ids, curS, curO, lastAdd,
                   iaBase, iaPaired, lastQuery>>

\* main._boot: pickle.load raises on a file that is not a whole pickle
boot_raises ==
    /\ pc = "down"
    /\ snapshot.exists /\ ~snapshot.whole
    /\ ~bootErr
    /\ bootErr' = TRUE
    /\ UNCHANGED <<vstore, docstore, snapshot, nextId, pc, stage, ids, curS, curO,
                   lastAdd, outcome, iaBase, iaPaired, lastQuery>>

\* rag_chain._answer_and_sources: retriever.invoke, parse_docs, build_prompt,
\* llm.invoke (which may raise)
answer_and_sources(matches, llm_ok) ==
    /\ pc = "idle"
    /\ lastQuery.outcome = "none"
    /\ LET raw_docs == Retrieve(matches, docstore)
           parsed   == parse_docs(raw_docs)
       IN  lastQuery' = [outcome |-> IF llm_ok THEN "ok" ELSE "error",
                         matches |-> matches,
                         docs |-> raw_docs,
                         sources |-> IF llm_ok THEN parsed.texts ELSE <<>>,
                         image_count |-> IF llm_ok THEN Len(parsed.images) ELSE 0]
    /\ UNCHANGED <<vstore, docstore, snapshot, nextId, pc, stage, ids, curS, curO,
                   lastAdd, outcome, iaBase, iaPaired, bootErr>>

StoreInit ==
    /\ vstore = {}
    /\ docstore = <<>>
    /\ snapshot = NoFile
    /\ nextId = 0
    /\ pc = "idle"
    /\ stage = "none"
    /\ ids = <<>>
    /\ curS = <<>>
    /\ curO = <<>>
    /\ lastAdd = "none"
    /\ outcome = [status |-> "none", at |-> "none", step |-> "none"]
    /\ iaBase = 0
    /\ iaPaired = TRUE
    /\ lastQuery = NoQuery
    /\ bootErr = FALSE

\* index_all calls add_texts_to_store / add_images_to_store with some arguments
add_call ==
    /\ pc = "call"
    /\ \E s \in ArgSeqs(KindSummaries(stage)), o \in ArgSeqs(KindOriginals(stage)) :
          add_enter(s, o)

\* main._ask_question: a question whose similarity search gives some ranking
query ==
    \E m \in Rankings(vstore, SearchK), ok \in BOOLEAN : answer_and_sources(m, ok)

----------------------------------------------------------------------------
\* summarizer.py

UnitPool == {"u3", "u500", "u501"}

UnitSeqs == UNION {[1..n -> UnitPool] : n \in 0..MaxUnits}

ConcValues == (-1)..MaxConc

\* what the model answers for one element: some string that depends on the
\* element only
Llm(t) == <<"summary of", t>>

Sentinel == <<"[Image - summary unavailable]">>

\* a batch that takes one element more than texts[i : i + concurrency]
BatchIdxOneMore(i, concurrency, n) == {j \in 1..n : i < j /\ j <= i + concurrency + 1}

\* batch = texts[i : i + concurrency], as the positions it covers
BatchIdx(i, concurrency, n) == {j \in 1..n : i < j /\ j <= i + concurrency}

Slice(s, lo, hi) == [j \in 1..(hi - lo) |-> s[lo + j]]

\* summaries.extend([t[:500] for t in batch]), one character too many
FallbackTooLong(batch) == [j \in DOMAIN batch |-> Take(Content(batch[j]), FallbackLen + 1)]

\* summaries.extend([t[:500] for t in batch])
Fallback(batch) == [j \in DOMAIN batch |-> Take(Content(batch[j]), FallbackLen)]

\* results of chain.batch(inputs): one per input, in input order
BatchResults(batch) == [j \in DOMAIN batch |-> Llm(batch[j])]

\* range(0, len(texts), concurrency) still has the value i
InRange(i, concurrency, n) == concurrency > 0 /\ i < n

\* summarise_texts / summarise_tables is called: lines 62-68 and the set-up of
\* the for loop (range() raises ValueError for a step of 0)
summarise_texts(texts, concurrency) ==
    /\ sPc = "idle" /\ sFn = "none"
    /\ sFn' = "texts"
    /\ sTexts' = texts
    /\ sConc' = concurrency
    /\ sOut' = <<>>
    /\ sI' = 0
    /\ sLog' = <<>>
    /\ IF texts = <<>> THEN sPc' = "done" /\ sRet' = "returned"
       ELSE IF concurrency = 0 THEN sPc' = "done" /\ sRet' = "raised"
       ELSE sPc' = "loop" /\ sRet' = "none"
    /\ UNCHANGED <<sInflight, sFailed>>

\* for i in range(...): the next batch is handed to chain.batch, which runs its
\* calls on max_concurrency threads; or the range is exhausted and the
\* summaries are returned
loop_head ==
    /\ sPc = "loop"
    /\ IF InRange(sI, sConc, Len(sTexts))
       THEN /\ sInflight' = BatchIdx(sI, sConc, Len(sTexts))
            /\ sFailed' = {}
            /\ sPc' = "batch"
            /\ UNCHANGED sRet
       ELSE /\ sPc' = "done"
            /\ sRet' = "returned"
            /\ UNCHANGED <<sInflight, sFailed>>
    /\ UNCHANGED <<sFn, sTexts, sConc, sI, sOut, sLog>>

\* one call of the batch returns or raises
call_ends(j, ok) ==
    /\ sPc = "batch"
    /\ j \in sInflight
    /\ sInflight' = sInflight \ {j}
    /\ sFailed' = IF ok THEN sFailed ELSE sFailed \cup {j}
    /\ UNCHANGED <<sPc, sFn, sTexts, sConc, sI, sOut, sRet, sLog>>

\* chain.batch returns the results or raises; lines 75-83
batch_ends ==
    /\ sPc = "batch"
    /\ sInflight = {}
    /\ LET hi    == Min(sI + sConc, Len(sTexts))
           batch == Slice(sTexts, sI, hi)
       IN  /\ sOut' = sOut \o (IF sFailed = {} THEN BatchResults(batch)
                               ELSE Fallback(batch))
           /\ sLog' = Append(sLog, [lo |-> sI, hi |-> hi, failed |-> sFailed # {}])
    /\ sI' = sI + sConc
    /\ sPc' = "loop"
    /\ UNCHANGED <<sFn, sTexts, sConc, sInflight, sFailed, sRet>>

\* summarise_images is called, lines 107-111
summarise_images(images) ==
    /\ sPc = "idle" /\ sFn = "none"
    /\ sFn' = "images"
    /\ sTexts' = images
    /\ sConc' = 1
    /\ sOut' = <<>>
    /\ sI' = 0
    /\ sLog' = <<>>
    /\ IF images = <<>> THEN sPc' = "done" /\ sRet' = "returned"
       ELSE sPc' = "img" /\ sRet' = "none"
    /\ UNCHANGED <<sInflight, sFailed>>

\* a failed call is skipped: nothing is appended for it
ImageAppendSkipsFailure(summaries, ok, img) ==
    IF ok THEN Append(summaries, Llm(img)) ELSE summaries

\* lines 125-130: summaries.append(response.content), or the fixed string
\* when llm.invoke raised
ImageAppend(summaries, ok, img) ==
    Append(summaries, IF ok THEN Llm(img) ELSE Sentinel)

\* line 126: llm.invoke([message]) is issued for the next image
image_invoke ==
    /\ sPc = "img"
    /\ sInflight = {}
    /\ sInflight' = {sI + 1}
    /\ UNCHANGED <<sPc, sFn, sTexts, sConc, sI, sFailed, sOut, sRet, sLog>>

\* llm.invoke returns or raises; the rest of the iteration of the for loop of
\* summarise_images, lines 126-132; after the last one the summaries are
\* returned
image_call(ok) ==
    /\ sPc = "img"
    /\ sInflight = {sI + 1}
    /\ sInflight' = {}
    /\ sOut' = ImageAppend(sOut, ok, sTexts[sI + 1])
    /\ sLog' = Append(sLog, [lo |-> sI, hi |-> sI + 1, failed |-> ~ok])
    /\ sI' = sI + 1
    /\ IF sI + 1 = Len(sTexts) THEN sPc' = "done" /\ sRet' = "returned"
       ELSE UNCHANGED <<sPc, sRet>>
    /\ UNCHANGED <<sFn, sTexts, sConc, sFailed>>

SummInit ==
    /\ sPc = "idle"
    /\ sFn = "none"
    /\ sTexts = <<>>
    /\ sConc = 0
    /\ sI = 0
    /\ sInflight = {}
    /\ sFailed = {}
    /\ sOut = <<>>
    /\ sRet = "none"
    /\ sLog = <<>>

texts_called == \E t \in UnitSeqs, c \in ConcValues : summarise_texts(t, c)

call_returns == \E j \in sInflight, ok \in BOOLEAN : call_ends(j, ok)

images_called == \E t \in UnitSeqs : summarise_images(t)

image_step == \E ok \in BOOLEAN : image_call(ok)

----------------------------------------------------------------------------
\* utils.py: the indexed-PDF registry

NameOrder == <<"a.pdf", "b.pdf", "c.pdf">>       \* the names, in sorted() order

NoRegFile == [exists |-> FALSE, whole |-> FALSE, names |-> <<>>]

\* sorted(existing)
Sorted(set) == SelectSeq(NameOrder, LAMBDA x : x \in set)

\* load_indexed_pdfs: set(json.load(f)), or set() when there is no file
load_indexed_pdfs(file) == IF file.exists THEN Range(file.names) ELSE {}

\* the list written, were the name appended to the list read
registry_list_append(file, filename) == file.names \o <<filename>>

\* save_indexed_pdf, lines 79-83: the list that is written
registry_list(file, filename) == Sorted(load_indexed_pdfs(file) \cup {filename})

\* save_indexed_pdf, lines 79-81: load, add, makedirs; json.load raises on a
\* file that is not a whole JSON document
reg_load(filename) ==
    /\ rPc = "idle"
    /\ rName' = filename
    /\ rBefore' = regFile.names
    /\ IF regFile.exists /\ ~regFile.whole
       THEN rRet' = "raised" /\ rPc' = "idle" /\ rExisting' = <<>>
       ELSE rRet' = "none" /\ rPc' = "loaded" /\ rExisting' = registry_list(regFile, filename)
    /\ UNCHANGED <<regFile, rAdded>>

\* open(json_path, "w") raises: the file is as it was
reg_open_raises ==
    /\ rPc = "loaded"
    /\ rRet' = "raised"
    /\ rPc' = "idle"
    /\ UNCHANGED <<regFile, rName, rExisting, rBefore, rAdded>>

\* open(json_path, "w") creates or truncates the file
reg_open ==
    /\ rPc = "loaded"
    /\ regFile' = [exists |-> TRUE, whole |-> FALSE, names |-> <<>>]
    /\ rPc' = "opened"
    /\ UNCHANGED <<rName, rExisting, rRet, rBefore, rAdded>>

\* json.dump(sorted(existing), f, indent=2) and the close of the file
reg_dump ==
    /\ rPc = "opened"
    /\ regFile' = [exists |-> TRUE, whole |-> TRUE, names |-> rExisting]
    /\ rRet' = "returned"
    /\ rAdded' = rAdded \cup {rName}
    /\ rPc' = "idle"
    /\ UNCHANGED <<rName, rExisting, rBefore>>

\* json.dump raises, or the process ends, before the document is complete
reg_dump_raises ==
    /\ rPc = "opened"
    /\ \E n \in 0..(Len(rExisting) - 1) :
          regFile' = [exists |-> TRUE, whole |-> FALSE, names |-> Take(rExisting, n)]
    /\ rRet' = "raised"
    /\ rPc' = "idle"
    /\ UNCHANGED <<rName, rExisting, rBefore, rAdded>>

RegInit ==
    /\ regFile = NoRegFile
    /\ rPc = "idle"
    /\ rName = "none"
    /\ rExisting = <<>>
    /\ rRet = "none"
    /\ rBefore = <<>>
    /\ rAdded = {}

\* main._upload_pdf calls save_indexed_pdf(filename, INDEXED_PDFS_PATH)
add_called == \E f \in Range(NameOrder) : reg_load(f)

----------------------------------------------------------------------------
----------------------------------------------------------------------------
\* main.py: _upload_pdf

\* lines 60-74: the path is asked; a path that is no file ends the action;
\* the registry is read (json.load raises on a file that is not a whole JSON
\* document); a registered name leads to the re-index question
upload_begin(filename, is_file) ==
    /\ uPc = "idle"
    /\ pc = "idle"
    /\ rPc = "idle"
    /\ IF ~is_file
       THEN uPc' = "idle" /\ uRet' = "no_file" /\ uName' = "none"
       ELSE /\ uName' = filename
            /\ IF regFile.exists /\ ~regFile.whole
               THEN uPc' = "idle" /\ uRet' = "failed"
               ELSE /\ uRet' = "none"
                    /\ uPc' = IF filename \in load_indexed_pdfs(regFile)
                              THEN "confirm" ELSE "partition"

\* lines 68-74: the answer to "Re-index?"
upload_confirm(re_index) ==
    /\ uPc = "confirm"
    /\ IF re_index # "y"
       THEN uPc' = "idle" /\ uRet' = "declined"
       ELSE uPc' = "partition" /\ uRet' = uRet
    /\ UNCHANGED uName

\* lines 78-79: partition_pdf_document returns or raises
upload_partition(ok) ==
    /\ uPc = "partition"
    /\ IF ok THEN uPc' = "summarise" /\ uRet' = uRet
       ELSE uPc' = "idle" /\ uRet' = "failed"
    /\ UNCHANGED uName

\* lines 83-85: the three summarise calls return or one of them raises
upload_summarise(ok) ==
    /\ uPc = "summarise"
    /\ IF ok THEN uPc' = "index" /\ uRet' = uRet
       ELSE uPc' = "idle" /\ uRet' = "failed"
    /\ UNCHANGED uName

\* lines 89-99: index_all is called
upload_index ==
    /\ uPc = "index"
    /\ index_all
    /\ uPc' = "indexing"
    /\ UNCHANGED <<uName, uRet>>

\* index_all raised: the exception leaves _upload_pdf
upload_index_raised ==
    /\ uPc = "indexing"
    /\ pc = "idle"
    /\ outcome.status = "failed"
    /\ uPc' = "idle"
    /\ uRet' = "failed"
    /\ UNCHANGED uName

\* save_indexed_pdf is called whatever way index_all ended
upload_register_any_outcome ==
    /\ uPc = "indexing"
    /\ pc = "idle"
    /\ reg_load(uName)
    /\ uPc' = "register"
    /\ UNCHANGED <<uName, uRet>>

\* line 101: index_all has returned, save_indexed_pdf(filename, ...) is called
upload_register ==
    /\ uPc = "indexing"
    /\ pc = "idle"
    /\ outcome.status = "ok"
    /\ reg_load(uName)
    /\ uPc' = "register"
    /\ UNCHANGED <<uName, uRet>>

\* lines 101-108: save_indexed_pdf has returned or raised
upload_end ==
    /\ uPc = "register"
    /\ rPc = "idle"
    /\ uPc' = "idle"
    /\ uRet' = IF rRet = "returned" THEN "ok" ELSE "failed_register"
    /\ UNCHANGED uName

UploadInit ==
    /\ uPc = "idle"
    /\ uName = "none"
    /\ uRet = "none"

\* the documents uploaded
UploadNames == {"a.pdf", "b.pdf"}

upload_called == \E f \in UploadNames, is_file \in BOOLEAN : upload_begin(f, is_file)

\* the add call of index_all as _upload_pdf makes it: the summaries are the
\* results of summarise_*(originals) with the default concurrency, one per
\* original
upload_add_call ==
    /\ pc = "call"
    /\ \E n \in 0..MaxItems :
          add_enter(Take(KindSummaries(stage), n), Take(KindOriginals(stage), n))

upload_answered == \E a \in {"y", "n"} : upload_confirm(a)

upload_partitioned == \E ok \in BOOLEAN : upload_partition(ok)

upload_summarised == \E ok \in BOOLEAN : upload_summarise(ok)

----------------------------------------------------------------------------
Init == StoreInit /\ SummInit /\ RegInit /\ B64Init /\ UploadInit

\* the dual-store index, the retriever and restarts
NextStore ==
    \/ index_all /\ UNCHANGED <<summVars, regVars, b64Vars, upVars>>
    \/ add_call /\ UNCHANGED <<summVars, regVars, b64Vars, upVars>>
    \/ add_documents /\ UNCHANGED <<summVars, regVars, b64Vars, upVars>>
    \/ add_documents_raises /\ UNCHANGED <<summVars, regVars, b64Vars, upVars>>
    \/ docstore_mset /\ UNCHANGED <<summVars, regVars, b64Vars, upVars>>
    \/ save_open_raises /\ UNCHANGED <<summVars, regVars, b64Vars, upVars>>
    \/ save_open /\ UNCHANGED <<summVars, regVars, b64Vars, upVars>>
    \/ save_dump /\ UNCHANGED <<summVars, regVars, b64Vars, upVars>>
    \/ save_dump_raises /\ UNCHANGED <<summVars, regVars, b64Vars, upVars>>
    \/ Exit /\ UNCHANGED <<summVars, regVars, b64Vars, upVars>>
    \/ boot /\ UNCHANGED <<summVars, regVars, b64Vars, upVars>>
    \/ boot_raises /\ UNCHANGED <<summVars, regVars, b64Vars, upVars>>
    \/ query /\ UNCHANGED <<summVars, regVars, b64Vars, upVars>>

SpecStore == Init /\ [][NextStore]_vars

\* the summariser
NextSummarizer ==
    \/ texts_called /\ UNCHANGED <<storeVars, regVars, b64Vars, upVars>>
    \/ loop_head /\ UNCHANGED <<storeVars, regVars, b64Vars, upVars>>
    \/ call_returns /\ UNCHANGED <<storeVars, regVars, b64Vars, upVars>>
    \/ batch_ends /\ UNCHANGED <<storeVars, regVars, b64Vars, upVars>>
    \/ images_called /\ UNCHANGED <<storeVars, regVars, b64Vars, upVars>>
    \/ image_invoke /\ UNCHANGED <<storeVars, regVars, b64Vars, upVars>>
    \/ image_step /\ UNCHANGED <<storeVars, regVars, b64Vars, upVars>>

SpecSummarizer == Init /\ [][NextSummarizer]_vars

\* the registry
NextRegistry ==
    \/ add_called /\ UNCHANGED <<storeVars, summVars, b64Vars, upVars>>
    \/ reg_open_raises /\ UNCHANGED <<storeVars, summVars, b64Vars, upVars>>
    \/ reg_open /\ UNCHANGED <<storeVars, summVars, b64Vars, upVars>>
    \/ reg_dump /\ UNCHANGED <<storeVars, summVars, b64Vars, upVars>>
    \/ reg_dump_raises /\ UNCHANGED <<storeVars, summVars, b64Vars, upVars>>

SpecRegistry == Init /\ [][NextRegistry]_vars

\* the base64 heuristic, applied to one text
NextB64 ==
    \/ classify /\ UNCHANGED <<storeVars, summVars, regVars, upVars>>

SpecB64 == Init /\ [][NextB64]_vars

\* the upload action of the menu, with the steps of index_all and of
\* save_indexed_pdf it runs
NextUpload ==
    \/ upload_called /\ UNCHANGED <<storeVars, summVars, regVars, b64Vars>>
    \/ upload_answered /\ UNCHANGED <<storeVars, summVars, regVars, b64Vars>>
    \/ upload_partitioned /\ UNCHANGED <<storeVars, summVars, regVars, b64Vars>>
    \/ upload_summarised /\ UNCHANGED <<storeVars, summVars, regVars, b64Vars>>
    \/ upload_index /\ UNCHANGED <<summVars, regVars, b64Vars>>
    \/ upload_add_call /\ UNCHANGED <<summVars, regVars, b64Vars, upVars>>
    \/ add_documents /\ UNCHANGED <<summVars, regVars, b64Vars, upVars>>
    \/ add_documents_raises /\ UNCHANGED <<summVars, regVars, b64Vars, upVars>>
    \/ docstore_mset /\ UNCHANGED <<summVars, regVars, b64Vars, upVars>>
    \/ save_open_raises /\ UNCHANGED <<summVars, regVars, b64Vars, upVars>>
    \/ save_open /\ UNCHANGED <<summVars, regVars, b64Vars, upVars>>
    \/ save_dump /\ UNCHANGED <<summVars, regVars, b64Vars, upVars>>
    \/ save_dump_raises /\ UNCHANGED <<summVars, regVars, b64Vars, upVars>>
    \/ upload_index_raised /\ UNCHANGED <<storeVars, summVars, regVars, b64Vars>>
    \/ upload_register /\ UNCHANGED <<storeVars, summVars, b64Vars>>
    \/ reg_open_raises /\ UNCHANGED <<storeVars, summVars, b64Vars, upVars>>
    \/ reg_open /\ UNCHANGED <<storeVars, summVars, b64Vars, upVars>>
    \/ reg_dump /\ UNCHANGED <<storeVars, summVars, b64Vars, upVars>>
    \/ reg_dump_raises /\ UNCHANGED <<storeVars, summVars, b64Vars, upVars>>
    \/ upload_end /\ UNCHANGED <<storeVars, summVars, regVars, b64Vars>>

SpecUpload == Init /\ [][NextUpload]_vars

----------------------------------------------------------------------------
\* Properties of the dual-store index and the retriever (SpecStore)

RecordIds == {r.doc_id : r \in vstore}

FileKeys == {snapshot.pairs[i][1] : i \in DOMAIN snapshot.pairs}

\* C1: whenever no add call is in progress (after any sequence of add calls,
\* completed or failed, and restarts), every embedding-store record's doc_id
\* is a key of the key-value store and every key of the key-value store is
\* the doc_id of an embedding-store record.  (Stated for add calls with
\* paired arguments; a dict holds each key once.)
C1_ReferentialIntegrity ==
    (pc = "idle" /\ iaPaired) =>
        /\ \A r \in vstore : r.doc_id \in Keys(docstore)
        /\ \A k \in Keys(docstore) : k \in RecordIds

\* some similarity match of the latest question has no key-value entry
DanglingMatch ==
    \E i \in DOMAIN lastQuery.matches : lastQuery.matches[i].doc_id \notin Keys(docstore)

\* C2: a question one of whose similarity matches has no key-value entry ends
\* in an error; the match is not silently left out of the result.
C2_IntegrityViolationSurfaced ==
    (lastQuery.outcome # "none" /\ DanglingMatch /\ iaPaired) =>
        lastQuery.outcome = "error"

\* the add call whose arguments are in curS, curO has len(summaries) # len(originals)
Mismatched == curS # <<>> /\ Len(curS) # Len(curO)

\* C3: an add call with len(summaries) # len(originals) does not return
\* normally: it ends in an error, with no record of the batch in the
\* embedding store, no entry of the batch in the key-value store and none in
\* the snapshot.
C3_MismatchFailsFast ==
    (Mismatched /\ lastAdd = "saved") =>
        /\ RecordIds \cap Range(ids) = {}
        /\ Keys(docstore) \cap Range(ids) = {}
        /\ FileKeys \cap Range(ids) = {}
        /\ outcome.status = "failed"

\* the latest add call returned normally and had positionally paired arguments
PairedAddDone == lastAdd = "saved" /\ Len(curS) = Len(curO)

\* C6: after an add call with paired arguments, a question whose nearest
\* record is the record of the batch's i-th summary gets, as its first
\* document, the i-th original of the batch.
C6_RoundTrip ==
    (lastQuery.outcome # "none" /\ PairedAddDone) =>
        \A i \in DOMAIN ids :
            (/\ lastQuery.matches # <<>>
             /\ lastQuery.matches[1] = [content |-> curS[i], doc_id |-> ids[i]]) =>
                /\ lastQuery.docs # <<>>
                /\ lastQuery.docs[1] = curO[i]

C6_Witness ==
    /\ lastQuery.outcome = "ok"
    /\ PairedAddDone
    /\ Len(ids) = 2
    /\ Cardinality(vstore) = 3
    /\ lastQuery.matches[1] = [content |-> curS[2], doc_id |-> ids[2]]
    /\ lastQuery.docs[1] = curO[2]

\* doc_ids drawn by the text and table calls of the latest index_all, when it
\* failed in the image call (whose doc_ids are in ids)
TextTableIds == ((iaBase + 1)..nextId) \ Range(ids)

\* C7: when the image call of index_all raises, every entry of the text and
\* table calls is in the embedding store, in the key-value store and in the
\* snapshot on disk.
C7_ImageFailureKeepsEarlierKinds ==
    (/\ outcome.status = "failed"
     /\ outcome.at = "image"
     /\ outcome.step \in {"add_documents", "open", "dump"}
     /\ iaPaired) =>
        \A id \in TextTableIds :
            /\ id \in RecordIds
            /\ id \in Keys(docstore)
            /\ snapshot.exists /\ snapshot.whole /\ id \in FileKeys

\* C8: (a) after an add call that returned normally, the snapshot holds every
\* item of the key-value store and nothing else, and load_docstore of it has
\* the same keys and values as the store; (b) after startup the store has
\* exactly the items of the snapshot, and is empty when there is no file.
C8_PersistReload ==
    /\ (pc \in {"idle", "call"} /\ lastAdd = "saved") =>
          /\ snapshot.exists /\ snapshot.whole
          /\ \A k \in Keys(docstore) :
                \E i \in DOMAIN snapshot.pairs : snapshot.pairs[i] = <<k, Get(docstore, k)>>
          /\ FileKeys \subseteq Keys(docstore)
          /\ SameStore(load_docstore(snapshot), docstore)
    /\ (pc = "idle" /\ outcome.status = "none") =>
          /\ Keys(docstore) = FileKeys
          /\ \A i \in DOMAIN snapshot.pairs :
                Get(docstore, snapshot.pairs[i][1]) = snapshot.pairs[i][2]
          /\ ~snapshot.exists => docstore = <<>>

\* an add call returned normally in a process that had loaded an entry at
\* startup: the snapshot holds the loaded entry and the new one
C8_Witness ==
    /\ pc = "idle"
    /\ lastAdd = "saved"
    /\ \E k \in Keys(docstore) : k <= iaBase
    /\ \E k \in Keys(docstore) : k > iaBase
    /\ Len(snapshot.pairs) = Len(docstore)
    /\ Len(docstore) >= 2

\* C9: the docstore snapshot and the registry file are, whenever they exist,
\* complete files.
C9_AtomicFiles ==
    /\ snapshot.exists => snapshot.whole
    /\ regFile.exists => regFile.whole

----------------------------------------------------------------------------
\* Properties of the summariser (SpecSummarizer)

\* what output[i] may be for the input unit t
Derived(fn, t) ==
    IF fn = "texts" THEN {Llm(t), Take(Content(t), FallbackLen)}
    ELSE {Llm(t), Sentinel}

\* C4: a call of summarise_texts / summarise_tables / summarise_images that
\* returns normally returns one summary per input unit, and output[i] is the
\* model summary of input[i] or the fallback for input[i], whatever the
\* concurrency argument and whichever calls fail.
C4_PairingInvariant ==
    sRet = "returned" =>
        /\ Len(sOut) = Len(sTexts)
        /\ \A i \in DOMAIN sOut : sOut[i] \in Derived(sFn, sTexts[i])

\* s is the first min(len(c), FallbackLen) characters of c
IsFallbackOf(s, c) ==
    /\ Len(s) = Min(Len(c), FallbackLen)
    /\ \A k \in 1..Len(s) : s[k] = c[k]

SomeBatchFailed == \E n \in DOMAIN sLog : sLog[n].failed

\* C5: in summarise_texts, every unit of a batch whose chain.batch call raised
\* has as its summary the first min(len, 500) characters of its own content,
\* every unit of another batch has its model summary, the batches follow one
\* another without a gap, the function does not raise, and when it returns
\* every unit has been handled.
C5_DegradedFallback ==
    (sFn = "texts" /\ SomeBatchFailed) =>
        /\ sRet # "raised"
        /\ \A n \in DOMAIN sLog :
              /\ sLog[n].lo = (IF n = 1 THEN 0 ELSE sLog[n - 1].hi)
              /\ sLog[n].hi > sLog[n].lo
              /\ sLog[n].hi <= Len(sOut)
              /\ \A j \in (sLog[n].lo + 1)..sLog[n].hi :
                    IF sLog[n].failed
                    THEN IsFallbackOf(sOut[j], Content(sTexts[j]))
                    ELSE sOut[j] = Llm(sTexts[j])
        /\ sRet = "returned" =>
              /\ Len(sOut) = Len(sTexts)
              /\ sLog[Len(sLog)].hi = Len(sTexts)

\* a call returned after its first batch, holding a unit longer than 500
\* characters, failed and its second batch succeeded
C5_Witness ==
    /\ sFn = "texts"
    /\ sRet = "returned"
    /\ Len(sLog) = 2
    /\ sLog[1].failed /\ ~sLog[2].failed
    /\ sLog[1].hi = 2
    /\ sTexts[2] = "u501"
    /\ Len(sOut[2]) = FallbackLen
    /\ sOut[3] = Llm(sTexts[3])

----------------------------------------------------------------------------
\* Properties of the registry (SpecRegistry)

NoDuplicates(s) == \A i, j \in DOMAIN s : i # j => s[i] # s[j]

\* C10: a save_indexed_pdf call that returns leaves a registry file holding
\* exactly the names that were in it plus the new one, each once; the file is
\* the same as before when the name was already there; every name added by a
\* call that returned is in the file.
C10_IdempotentRegistry ==
    /\ regFile.whole => /\ NoDuplicates(regFile.names)
                        /\ rAdded \subseteq Range(regFile.names)
    /\ (rPc = "idle" /\ rRet = "returned") =>
          /\ regFile.exists /\ regFile.whole
          /\ Range(regFile.names) = Range(rBefore) \cup {rName}
          /\ rName \in Range(rBefore) => regFile.names = rBefore

\* a name that was already in a registry of two names was added again
C10_Witness ==
    /\ rPc = "idle"
    /\ rRet = "returned"
    /\ rName \in Range(rBefore)
    /\ Len(regFile.names) = 2
    /\ rAdded = Range(regFile.names)

----------------------------------------------------------------------------
\* is_base64_image

\* the text has only alphanumeric characters, '+', '/' and '='
OnlyB64Chars(t) == Range(t) \subseteq {"A", "="}

\* the text is one or more alphanumeric, '+', '/' characters followed by any
\* number of '=' up to its end
PaddedB64(t) ==
    /\ OnlyB64Chars(t)
    /\ t # <<>>
    /\ t[1] = "A"
    /\ \A i \in 1..(Len(t) - 1) : t[i] = "=" => t[i + 1] = "="

\* C11 as stated: every 300-character text made only of alphanumeric
\* characters, '+', '/' and '=' is classified image-like, and every text
\* shorter than 200 characters is classified not image-like.
C11_Base64Classification ==
    LET text == Expand(bRuns)
    IN  bPc = "done" =>
            /\ (Len(text) = 300 /\ OnlyB64Chars(text)) => bRes
            /\ Len(text) < 200 => ~bRes

\* C11 amended: every 300-character text of alphanumeric characters, '+' and
\* '/' that has '=' only as padding at its end is classified image-like, and
\* every text shorter than 200 characters is classified not image-like.
C11_PaddedBase64Classification ==
    LET text == Expand(bRuns)
    IN  bPc = "done" =>
            /\ (Len(text) = 300 /\ PaddedB64(text)) => bRes
            /\ Len(text) < 200 => ~bRes

C11_Witness ==
    LET text == Expand(bRuns)
    IN  /\ bPc = "done"
        /\ Len(text) = 300
        /\ PaddedB64(text)
        /\ "=" \in Range(text)
        /\ bRes

----------------------------------------------------------------------------
\* summarise_texts: batches and calls in flight

\* C12: units are submitted in consecutive batches of size concurrency (the
\* last may be shorter), never more than concurrency calls are in flight, and
\* every call in flight belongs to the one batch that was submitted after all
\* earlier batches had ended (returned or failed).
C12_BatchBarrier ==
    sFn = "texts" =>
        /\ \A n \in DOMAIN sLog :
               /\ sLog[n].lo = (n - 1) * sConc
               /\ sLog[n].hi = Min(n * sConc, Len(sTexts))
        /\ sPc = "batch" => sI = Len(sLog) * sConc
        /\ sInflight # {} =>
               /\ sPc = "batch"
               /\ Cardinality(sInflight) <= sConc
               /\ \A j \in sInflight : sI < j /\ j <= Min(sI + sConc, Len(sTexts))

\* the second batch is in flight after the first one failed
C12_Witness ==
    /\ sFn = "texts"
    /\ sConc = 2
    /\ Len(sTexts) = 3
    /\ Len(sLog) = 1
    /\ sLog[1].failed
    /\ sInflight = {3}

----------------------------------------------------------------------------
\* add_texts_to_store / add_images_to_store: order of the three writes

BatchIds == Range(ids)

\* C13: inside an add call the embedding records of the batch are written
\* before its key-value entries and those before the snapshot, so at every
\* step, and in every state in which a step has failed, no key-value entry
\* and no snapshot entry of the batch exists without its embedding record;
\* after a failed step the only records of this index_all without a
\* key-value entry are records of the failed batch.
C13_WriteOrder ==
    /\ pc = "ids" => BatchIds \cap (RecordIds \cup Keys(docstore) \cup FileKeys) = {}
    /\ pc = "embedded" => BatchIds \cap (Keys(docstore) \cup FileKeys) = {}
    /\ pc = "stored" => BatchIds \cap FileKeys = {}
    /\ \A id \in BatchIds :
           /\ id \in Keys(docstore) => id \in RecordIds
           /\ id \in FileKeys => id \in Keys(docstore) /\ id \in RecordIds
    /\ (lastAdd = "raised" /\ iaPaired) =>
           \A r \in vstore :
               (r.doc_id > iaBase /\ r.doc_id \notin Keys(docstore)) => r.doc_id \in BatchIds

\* save_docstore could not open the snapshot file: records and key-value
\* entries of the batch exist, the snapshot has none of them
C13_Witness ==
    /\ lastAdd = "raised"
    /\ outcome.step = "open"
    /\ BatchIds # {}
    /\ BatchIds \subseteq RecordIds
    /\ BatchIds \subseteq Keys(docstore)
    /\ BatchIds \cap FileKeys = {}

----------------------------------------------------------------------------
\* summarise_images

\* C14: summarise_images issues one call per image, one at a time in input
\* order (the call for image i+1 only after the call for image i has returned
\* or raised); a call that raised leaves the fixed string at its position,
\* every other position holds the model's summary of its own image, and the
\* function never raises and returns one entry per image.
C14_ImagePath ==
    sFn = "images" =>
        /\ Cardinality(sInflight) <= 1
        /\ \A j \in sInflight : j = sI + 1 /\ j <= Len(sTexts)
        /\ Len(sLog) = sI
        /\ Len(sOut) = sI
        /\ \A n \in DOMAIN sLog :
               /\ sLog[n].lo = n - 1
               /\ sLog[n].hi = n
               /\ n \in DOMAIN sOut
               /\ sOut[n] = IF sLog[n].failed THEN Sentinel ELSE Llm(sTexts[n])
        /\ sRet # "raised"
        /\ sRet = "returned" => Len(sOut) = Len(sTexts)

\* three images, the call for the second one raised
C14_Witness ==
    /\ sFn = "images"
    /\ sRet = "returned"
    /\ Len(sTexts) = 3
    /\ sOut = <<Llm(sTexts[1]), Sentinel, Llm(sTexts[3])>>

----------------------------------------------------------------------------
\* _upload_pdf and the registry

StoresUnchanged == UNCHANGED <<vstore, docstore, snapshot>>

\* C15: in every step of _upload_pdf the registry file is written only by the
\* save_indexed_pdf call for the document whose index_all has returned
\* successfully; that call is reached from a successful index_all only; an
\* upload that ends because partitioning, summarising or indexing raised, or
\* because re-indexing was declined, ends without having reached it; and
\* until index_all is called (so also on decline) no store is written.
C15_RegistryAfterIndexing ==
    [][/\ regFile' # regFile =>
             uPc = "register" /\ outcome.status = "ok" /\ rName = uName
       /\ (uPc' = "register" /\ uPc # "register") =>
             uPc = "indexing" /\ outcome.status = "ok"
       /\ uRet' \in {"failed", "declined", "no_file"} => uPc # "register"
       /\ uPc \in {"idle", "confirm", "partition", "summarise"} => StoresUnchanged
       /\ (uRet' = "declined" /\ uPc = "confirm") =>
             StoresUnchanged /\ regFile' = regFile]_vars

\* an upload has ended with the document indexed and its name in the registry
C15_Witness ==
    /\ uPc = "idle"
    /\ uRet = "ok"
    /\ outcome.status = "ok"
    /\ vstore # {}
    /\ regFile.whole
    /\ uName \in Range(regFile.names)

====
